---- MODULE Spec2Model ----
(***************************************************************************)
(* Model of src/ophase.rs of kitmatheinfo-bot: the O-Phase role feature.   *)
(*                                                                         *)
(*   - handle_new_guild_member: the join path.  One task per join          *)
(*     notification; the tasks share ophase_invite_uses, an                *)
(*     Arc<Mutex<Option<u64>>>.                                            *)
(*   - ersti: the /ophase slash command with its password modal.           *)
(*                                                                         *)
(* Every await of the source is a separate step, so that tasks interleave  *)
(* exactly where the runtime can interleave them.  Inside the critical     *)
(* section the read (line 111) and the write (line 112) are separate steps *)
(* as well: their indivisibility comes from the mutex, not from the model. *)
(***************************************************************************)
EXTENDS Integers, Sequences, FiniteSets, TLC

\* ---------------------------------------------------------------- bounds
\* Number of members that join (one join notification, one handler each).
NumMembers == 3

\* Use counts the tracked invite may have when the bot starts.
StartUses == {5}

Members == 1..NumMembers

\* Option<u64>: None is the empty sequence, Some(n) the one-element one.
None == << >>
Some(n) == << n >>
IsSome(o) == Len(o) = 1
Unwrap(o) == o[1]

VARIABLES
    \* --- platform (Discord) state
    uses,           \* invite.uses of the tracked invite
    invitePresent,  \* the guild's invite list has the configured code
    roleHolders,    \* members that hold the O-Phase role
    \* --- bot state
    configured,     \* config.o_phase is Some
    ready,          \* the startup snapshot has been attempted
    counter,        \* the Option<u64> inside the mutex
    lockHolder,     \* handler holding the MutexGuard, 0 when free
    poisoned,       \* the mutex is poisoned
    \* --- one handle_new_guild_member task per member
    pc,             \* position of the task
    via,            \* the member joined through the tracked invite
    fetched,        \* new_invite_uses (line 107)
    prev,           \* previous (line 111)
    result,         \* "none", "ok", "err_platform", "err_role", "panic"
    decision,       \* "none", "not_applicable", "caused", "not_caused",
                    \* "uninitialized"
    \* --- history of the join path
    initVal,        \* what the startup snapshot stored
    csOrder,        \* handlers in the order they acquired the lock
    grantCalls,     \* add_role calls per handler (line 124)
    resolveCalls    \* to_partial_guild calls per handler (line 123)

joinVars == << uses, invitePresent, roleHolders, configured,
               ready, counter, lockHolder, poisoned, pc, via, fetched, prev,
               result, decision, initVal, csOrder, grantCalls, resolveCalls >>

\* --- one /ophase invocation at a time for the invoking user
VARIABLES
    cfgPassword,    \* config.password
    channelExists,  \* the guild has a channel named config.channel_name
    cpc,            \* position of the command task
    cmdUser,        \* ctx.author()
    cmdInGuild,     \* the interaction carries a member (not a DM)
    cmdCached,      \* ctx.guild() finds the guild in the cache
    cmdRoleFound,   \* the cached guild has a role named config.role_name
    modal,          \* "none", "error", "cancelled", "submitted"
    submitted,      \* response.password
    cmdResult,      \* "none", "ok", or the error returned
    \* --- history of the invocation
    netCalls,       \* platform requests made by the invocation
    cmdGrantCalls,  \* add_role calls (line 175)
    cmdGranted,     \* add_role returned Ok
    failNotices,    \* wrong-password replies sent (line 169)
    successNotices, \* welcome replies sent (line 187)
    invocations,    \* invocations so far
    earlierFailures \* invocations that ended in a wrong password or a
                    \* dismissed form

cmdVars == << cfgPassword, channelExists, cpc, cmdUser, cmdInGuild, cmdCached,
              cmdRoleFound,
              modal, submitted, cmdResult, netCalls, cmdGrantCalls,
              cmdGranted, failNotices, successNotices, invocations,
              earlierFailures >>

vars == << joinVars, cmdVars >>

----------------------------------------------------------------------------
\* ------------------------------------------------------------- passwords
\* Lines 198-199: #[min_length = 5], #[max_length = 40].
MinLength == 5
MaxLength == 40

\* A String is the sequence of its characters.
Repeat(c, n) == [i \in 1..n |-> c]

\* char::to_lowercase on the characters the model uses.
LowerChar(c) ==
    CASE c = "Q" -> "q"
      [] c = "U" -> "u"
      [] c = "A" -> "a"
      [] c = "C" -> "c"
      [] c = "K" -> "k"
      [] OTHER -> c

\* String::to_lowercase (line 155).
to_lowercase(s) == [i \in 1..Len(s) |-> LowerChar(s[i])]

\* Passwords the configuration may hold.
ConfigPasswords ==
    { << "q", "u", "a", "c", "k", "1", "2", "3" >>,
      << "Q", "u", "a", "c", "K" >> }

\* What a user may type into the modal's text field.
TypedPasswords ==
    { << "q", "u", "a", "c", "k", "1", "2", "3" >>,
      << "Q", "u", "A", "c", "K", "1", "2", "3" >>,
      << "q", "u", "a", "c", "k", "1", "2", "4" >>,
      << "q", "u", "a", "c", "k" >>,
      << "Q", "u", "a", "c", "K" >>,
      << "q", "U", "a", "C", "k" >>,
      << "k", "c", "a", "u", "q" >>,
      << "q", "u", "a", "c" >>,
      << "q", "u", "a", "c", "k", "1" >>,
      Repeat("a", MaxLength),
      Repeat("a", MaxLength + 1) }

----------------------------------------------------------------------------
\* State after construction: AppState holds Mutex::new(None); nobody has
\* joined and no command runs.
InitJoinPath ==
    /\ uses \in StartUses
    /\ invitePresent = TRUE
    /\ roleHolders = {}
    /\ ready = FALSE
    /\ counter = None
    /\ lockHolder = 0
    /\ poisoned = FALSE
    /\ pc = [h \in Members |-> "idle"]
    /\ via = [h \in Members |-> FALSE]
    /\ fetched = [h \in Members |-> 0]
    /\ prev = [h \in Members |-> None]
    /\ result = [h \in Members |-> "none"]
    /\ decision = [h \in Members |-> "none"]
    /\ initVal = None
    /\ csOrder = << >>
    /\ grantCalls = [h \in Members |-> 0]
    /\ resolveCalls = [h \in Members |-> 0]

InitCommand ==
    /\ cpc = "idle"
    /\ cmdUser = 0
    /\ cmdInGuild = FALSE
    /\ cmdCached = FALSE
    /\ cmdRoleFound = FALSE
    /\ modal = "none"
    /\ submitted = << >>
    /\ cmdResult = "none"
    /\ netCalls = 0
    /\ cmdGrantCalls = 0
    /\ cmdGranted = FALSE
    /\ failNotices = 0
    /\ successNotices = 0
    /\ invocations = 0
    /\ earlierFailures = 0

\* The join path reads neither config.password nor config.channel_name.
Init ==
    /\ InitJoinPath
    /\ InitCommand
    /\ configured \in BOOLEAN
    /\ cfgPassword = << "q", "u", "a", "c", "k", "1", "2", "3" >>
    /\ channelExists = TRUE

\* The command path under every configuration and guild it can meet.
InitCmd ==
    /\ InitJoinPath
    /\ InitCommand
    /\ configured \in BOOLEAN
    /\ cfgPassword \in ConfigPasswords
    /\ channelExists \in BOOLEAN

----------------------------------------------------------------------------
\* get_ophase_invite_count (lines 61-85): None when the feature is not
\* configured; panics when the invites cannot be fetched or the code is not
\* among them; Some(invite.uses) otherwise.  "panic" stands for the panic.
get_ophase_invite_count(ok) ==
    IF ~configured THEN None
    ELSE IF ~ok \/ ~invitePresent THEN "panic"
    ELSE Some(uses)

\* The ready handler stores the snapshot in the mutex (initialize of the
\* tracker); it does so once, taking the lock, which a poisoned mutex does
\* not give.
Initialize ==
    /\ ~ready
    /\ lockHolder = 0
    /\ ~poisoned
    /\ \E ok \in BOOLEAN :
         LET c == get_ophase_invite_count(ok) IN
         /\ ready' = TRUE
         /\ IF c = "panic"
              THEN UNCHANGED << counter, initVal >>
              ELSE counter' = c /\ initVal' = c
    /\ UNCHANGED cmdVars
    /\ UNCHANGED << uses, invitePresent, roleHolders, configured,
                    lockHolder, poisoned, pc, via, fetched, prev, result,
                    decision, csOrder, grantCalls, resolveCalls >>

\* The platform: member h joins the guild, through the tracked invite
\* (which raises its use count) or some other way, and the gateway delivers
\* the join notification, which starts handle_new_guild_member for h when
\* the feature is configured.  Members are numbered in the order they join.
Join(h, tracked) ==
    /\ pc[h] = "idle"
    /\ \A g \in Members : g < h => pc[g] # "idle"
    /\ configured
    /\ tracked => invitePresent
    /\ uses' = IF tracked THEN uses + 1 ELSE uses
    /\ via' = [via EXCEPT ![h] = tracked]
    /\ pc' = [pc EXCEPT ![h] = "fetch"]
    /\ UNCHANGED cmdVars
    /\ UNCHANGED << invitePresent, roleHolders, configured, ready,
                    counter, lockHolder, poisoned, fetched, prev, result,
                    decision, initVal, csOrder, grantCalls, resolveCalls >>

\* The platform: the tracked invite is deleted.
DeleteInvite ==
    /\ invitePresent
    /\ invitePresent' = FALSE
    /\ UNCHANGED cmdVars
    /\ UNCHANGED << uses, roleHolders, configured, ready, counter,
                    lockHolder, poisoned, pc, via, fetched, prev, result,
                    decision, initVal, csOrder, grantCalls, resolveCalls >>

\* FetchInvites with a missing invite read as an invite with no uses
\* (unwrap_or_default instead of the early return).
FetchInvitesDefaultZero(h) ==
    /\ pc[h] = "fetch"
    /\ \E ok \in BOOLEAN :
         IF ~ok
           THEN /\ pc' = [pc EXCEPT ![h] = "done"]
                /\ result' = [result EXCEPT ![h] = "err_platform"]
                /\ UNCHANGED << fetched, decision >>
         ELSE /\ pc' = [pc EXCEPT ![h] = "lock"]
              /\ fetched' = [fetched EXCEPT ![h] =
                                IF invitePresent THEN uses ELSE 0]
              /\ decision' = [decision EXCEPT ![h] =
                                IF invitePresent THEN @ ELSE "not_applicable"]
              /\ UNCHANGED result
    /\ UNCHANGED cmdVars
    /\ UNCHANGED << uses, invitePresent, roleHolders, configured,
                    ready, counter, lockHolder, poisoned, via, prev, initVal,
                    csOrder, grantCalls, resolveCalls >>

\* Lines 99-107: guild.invites(..).await?, then find the configured code.
FetchInvites(h) ==
    /\ pc[h] = "fetch"
    /\ \E ok \in BOOLEAN :
         IF ~ok
           THEN /\ pc' = [pc EXCEPT ![h] = "done"]
                /\ result' = [result EXCEPT ![h] = "err_platform"]
                /\ UNCHANGED << fetched, decision >>
         ELSE IF ~invitePresent
           THEN /\ pc' = [pc EXCEPT ![h] = "done"]
                /\ result' = [result EXCEPT ![h] = "ok"]
                /\ decision' = [decision EXCEPT ![h] = "not_applicable"]
                /\ UNCHANGED fetched
         ELSE /\ pc' = [pc EXCEPT ![h] = "lock"]
              /\ fetched' = [fetched EXCEPT ![h] = uses]
              /\ UNCHANGED << result, decision >>
    /\ UNCHANGED cmdVars
    /\ UNCHANGED << uses, invitePresent, roleHolders, configured,
                    ready, counter, lockHolder, poisoned, via, prev, initVal,
                    csOrder, grantCalls, resolveCalls >>

\* LockAcquire without mutual exclusion (the counter shared without a mutex).
LockAcquireNoExclusion(h) ==
    /\ pc[h] = "lock"
    /\ IF poisoned
         THEN /\ pc' = [pc EXCEPT ![h] = "done"]
              /\ result' = [result EXCEPT ![h] = "panic"]
              /\ UNCHANGED << lockHolder, csOrder >>
         ELSE /\ pc' = [pc EXCEPT ![h] = "read"]
              /\ lockHolder' = h
              /\ csOrder' = Append(csOrder, h)
              /\ UNCHANGED result
    /\ UNCHANGED cmdVars
    /\ UNCHANGED << uses, invitePresent, roleHolders, configured,
                    ready, counter, poisoned, via, fetched, prev, decision,
                    initVal, grantCalls, resolveCalls >>

\* Line 109: ophase_invite_uses.lock().unwrap().  The lock is exclusive; on
\* a poisoned mutex lock() returns Err and unwrap panics.
LockAcquire(h) ==
    /\ pc[h] = "lock"
    /\ lockHolder = 0
    /\ IF poisoned
         THEN /\ pc' = [pc EXCEPT ![h] = "done"]
              /\ result' = [result EXCEPT ![h] = "panic"]
              /\ UNCHANGED << lockHolder, csOrder >>
         ELSE /\ pc' = [pc EXCEPT ![h] = "read"]
              /\ lockHolder' = h
              /\ csOrder' = Append(csOrder, h)
              /\ UNCHANGED result
    /\ UNCHANGED cmdVars
    /\ UNCHANGED << uses, invitePresent, roleHolders, configured,
                    ready, counter, poisoned, via, fetched, prev, decision,
                    initVal, grantCalls, resolveCalls >>

\* Lines 110-111: count.as_mut().unwrap() and previous = *uses.  On None the
\* unwrap panics; the guard is dropped while unwinding, which poisons the
\* mutex.
ReadPrevious(h) ==
    /\ pc[h] = "read"
    /\ IF IsSome(counter)
         THEN /\ prev' = [prev EXCEPT ![h] = counter]
              /\ pc' = [pc EXCEPT ![h] = "write"]
              /\ UNCHANGED << result, decision, lockHolder, poisoned >>
         ELSE /\ pc' = [pc EXCEPT ![h] = "done"]
              /\ result' = [result EXCEPT ![h] = "panic"]
              /\ decision' = [decision EXCEPT ![h] = "uninitialized"]
              /\ lockHolder' = IF lockHolder = h THEN 0 ELSE lockHolder
              /\ poisoned' = TRUE
              /\ UNCHANGED prev
    /\ UNCHANGED cmdVars
    /\ UNCHANGED << uses, invitePresent, roleHolders, configured,
                    ready, counter, via, fetched, initVal, csOrder,
                    grantCalls, resolveCalls >>

\* WriteNew that leaves the stored count as it was.
WriteNewSkipped(h) ==
    /\ pc[h] = "write"
    /\ pc' = [pc EXCEPT ![h] = "unlock"]
    /\ UNCHANGED cmdVars
    /\ UNCHANGED << uses, invitePresent, roleHolders, configured,
                    ready, counter, lockHolder, poisoned, via, fetched, prev,
                    result, decision, initVal, csOrder, grantCalls,
                    resolveCalls >>

\* Line 112: *uses = new_invite_uses.
WriteNew(h) ==
    /\ pc[h] = "write"
    /\ counter' = Some(fetched[h])
    /\ pc' = [pc EXCEPT ![h] = "unlock"]
    /\ UNCHANGED cmdVars
    /\ UNCHANGED << uses, invitePresent, roleHolders, configured,
                    ready, lockHolder, poisoned, via, fetched, prev, result,
                    decision, initVal, csOrder, grantCalls, resolveCalls >>

\* Caused with >= for >.
CausedOrEqual(new, old) == new >= old

\* Line 118: new_invite_uses > ophase_invite_uses.
Caused(new, old) == new > old

\* Release that keeps the guard alive while the role is resolved and granted.
ReleaseKeepsGuard(h) ==
    /\ pc[h] = "unlock"
    /\ IF Caused(fetched[h], Unwrap(prev[h]))
         THEN /\ decision' = [decision EXCEPT ![h] = "caused"]
              /\ pc' = [pc EXCEPT ![h] = "resolve"]
              /\ UNCHANGED << result, lockHolder >>
         ELSE /\ decision' = [decision EXCEPT ![h] = "not_caused"]
              /\ pc' = [pc EXCEPT ![h] = "done"]
              /\ result' = [result EXCEPT ![h] = "ok"]
              /\ lockHolder' = IF lockHolder = h THEN 0 ELSE lockHolder
    /\ UNCHANGED cmdVars
    /\ UNCHANGED << uses, invitePresent, roleHolders, configured,
                    ready, counter, poisoned, via, fetched, prev, initVal,
                    csOrder, grantCalls, resolveCalls >>

\* Lines 113-118: the block yields previous, the guard is dropped, and the
\* comparison decides.
Release(h) ==
    /\ pc[h] = "unlock"
    /\ lockHolder' = IF lockHolder = h THEN 0 ELSE lockHolder
    /\ IF Caused(fetched[h], Unwrap(prev[h]))
         THEN /\ decision' = [decision EXCEPT ![h] = "caused"]
              /\ pc' = [pc EXCEPT ![h] = "resolve"]
              /\ UNCHANGED result
         ELSE /\ decision' = [decision EXCEPT ![h] = "not_caused"]
              /\ pc' = [pc EXCEPT ![h] = "done"]
              /\ result' = [result EXCEPT ![h] = "ok"]
    /\ UNCHANGED cmdVars
    /\ UNCHANGED << uses, invitePresent, roleHolders, configured,
                    ready, counter, poisoned, via, fetched, prev, initVal,
                    csOrder, grantCalls, resolveCalls >>

\* ResolveRole with the errors swallowed: the handler logs and returns Ok.
ResolveRoleSwallowsError(h) ==
    /\ pc[h] = "resolve"
    /\ resolveCalls' = [resolveCalls EXCEPT ![h] = @ + 1]
    /\ \E ok, roleFound \in BOOLEAN :
         IF ~ok \/ ~roleFound
           THEN /\ pc' = [pc EXCEPT ![h] = "done"]
                /\ result' = [result EXCEPT ![h] = "ok"]
         ELSE /\ pc' = [pc EXCEPT ![h] = "grant"]
              /\ UNCHANGED result
    /\ UNCHANGED cmdVars
    /\ UNCHANGED << uses, invitePresent, roleHolders, configured,
                    ready, counter, lockHolder, poisoned, via, fetched, prev,
                    decision, initVal, csOrder, grantCalls >>

\* Line 123: guild.to_partial_guild(..).await?, then get_role_id (39-45),
\* which finds a role named config.role_name among the guild's roles or
\* does not.
ResolveRole(h) ==
    /\ pc[h] = "resolve"
    /\ resolveCalls' = [resolveCalls EXCEPT ![h] = @ + 1]
    /\ \E ok, roleFound \in BOOLEAN :
         IF ~ok
           THEN /\ pc' = [pc EXCEPT ![h] = "done"]
                /\ result' = [result EXCEPT ![h] = "err_platform"]
         ELSE IF ~roleFound
           THEN /\ pc' = [pc EXCEPT ![h] = "done"]
                /\ result' = [result EXCEPT ![h] = "err_role"]
         ELSE /\ pc' = [pc EXCEPT ![h] = "grant"]
              /\ UNCHANGED result
    /\ UNCHANGED cmdVars
    /\ UNCHANGED << uses, invitePresent, roleHolders, configured,
                    ready, counter, lockHolder, poisoned, via, fetched, prev,
                    decision, initVal, csOrder, grantCalls >>

\* AddRole that grants to the member whose handler held the lock last
\* instead of new_member.
AddRoleWrongMember(h) ==
    /\ pc[h] = "grant"
    /\ grantCalls' = [grantCalls EXCEPT ![h] = @ + 1]
    /\ pc' = [pc EXCEPT ![h] = "done"]
    /\ \E ok \in BOOLEAN :
         IF ok
           THEN /\ roleHolders' = roleHolders \cup {csOrder[Len(csOrder)]}
                /\ result' = [result EXCEPT ![h] = "ok"]
           ELSE /\ result' = [result EXCEPT ![h] = "err_platform"]
                /\ UNCHANGED roleHolders
    /\ UNCHANGED cmdVars
    /\ UNCHANGED << uses, invitePresent, configured, ready,
                    counter, lockHolder, poisoned, via, fetched, prev,
                    decision, initVal, csOrder, resolveCalls >>

\* Line 124: new_member.add_role(..).await?, then Ok(()).
AddRole(h) ==
    /\ pc[h] = "grant"
    /\ grantCalls' = [grantCalls EXCEPT ![h] = @ + 1]
    /\ pc' = [pc EXCEPT ![h] = "done"]
    /\ \E ok \in BOOLEAN :
         IF ok
           THEN /\ roleHolders' = roleHolders \cup {h}
                /\ result' = [result EXCEPT ![h] = "ok"]
           ELSE /\ result' = [result EXCEPT ![h] = "err_platform"]
                /\ UNCHANGED roleHolders
    /\ UNCHANGED cmdVars
    /\ UNCHANGED << uses, invitePresent, configured, ready,
                    counter, lockHolder, poisoned, via, fetched, prev,
                    decision, initVal, csOrder, resolveCalls >>

NextJoin ==
    \/ Initialize
    \/ DeleteInvite
    \/ \E h \in Members, tracked \in BOOLEAN : Join(h, tracked)
    \/ \E h \in Members : FetchInvites(h)
    \/ \E h \in Members : LockAcquire(h)
    \/ \E h \in Members : ReadPrevious(h)
    \/ \E h \in Members : WriteNew(h)
    \/ \E h \in Members : Release(h)
    \/ \E h \in Members : ResolveRole(h)
    \/ \E h \in Members : AddRole(h)

SpecJoin == Init /\ [][NextJoin]_vars

----------------------------------------------------------------------------
\* Properties of the join path, checked under SpecJoin.

\* Handler h has executed line 111.
Obtained(h) == IsSome(prev[h])

\* Handler h made the comparison of line 118.
Decided(h) == decision[h] \in {"caused", "not_caused"}

\* C1: the previous value a handler reads inside the critical section is the
\* value stored by the handler that acquired the lock immediately before it,
\* or the initialize value for the first handler; so no store is skipped and
\* no store is read twice.
C1_PreviousIsPredecessorsStore ==
    \A i \in 1..Len(csOrder) :
        LET h == csOrder[i] IN
        Obtained(h) =>
            prev[h] = IF i = 1 THEN initVal ELSE Some(fetched[csOrder[i - 1]])

\* A second handler has read a value that an earlier handler stored.
C1_Witness ==
    \E i \in 2..Len(csOrder) :
        /\ Obtained(csOrder[i])
        /\ prev[csOrder[i]] # initVal
        /\ prev[csOrder[i]] = Some(fetched[csOrder[i - 1]])

\* Joins through the tracked invite since the counter was initialized.
TrackedJoinsSinceInit == uses - Unwrap(initVal)

\* C2: the number of role grants performed by the join handlers never
\* exceeds the number of joins through the tracked invite since
\* initialization.
C2_GrantsWithinTrackedJoins ==
    IsSome(initVal) => Cardinality(roleHolders) <= TrackedJoinsSinceInit

\* The counter was initialized to 5 and the first two handlers to enter the
\* critical section had fetched 7 and 8, in that order, and have decided.
C3_Case(a, b) ==
    /\ initVal = Some(5)
    /\ Len(csOrder) >= 2
    /\ csOrder[1] = a
    /\ csOrder[2] = b
    /\ fetched[a] = 7
    /\ fetched[b] = 8
    /\ Decided(a)
    /\ Decided(b)

\* C3 as stated: from counter 5, updates 7 then 8: the first reads 5 and
\* decides caused, the second reads 7 and decides not caused.
C3_SecondNotCaused ==
    \A a, b \in Members :
        C3_Case(a, b) =>
            /\ prev[a] = Some(5)
            /\ decision[a] = "caused"
            /\ prev[b] = Some(7)
            /\ decision[b] = "not_caused"

\* C3 amended: from counter 5, updates 7 then 8: the first reads 5 and
\* decides caused, the second reads 7 and decides caused as well (8 > 7).
C3_SecondAlsoCaused ==
    \A a, b \in Members :
        C3_Case(a, b) =>
            /\ prev[a] = Some(5)
            /\ decision[a] = "caused"
            /\ prev[b] = Some(7)
            /\ decision[b] = "caused"

C3_Witness == \E a, b \in Members : C3_Case(a, b)

\* C4: a handler that read p and fetched n decides caused, and goes on to
\* resolve and grant the role, exactly when n > p, and decides not caused
\* when n <= p; right after its write the counter holds n.
C4_CausedIffGreater ==
    \A h \in Members :
        /\ decision[h] = "caused" =>
               Obtained(h) /\ fetched[h] > Unwrap(prev[h])
        /\ decision[h] = "not_caused" =>
               Obtained(h) /\ fetched[h] <= Unwrap(prev[h])
        /\ (pc[h] \in {"resolve", "grant"} \/ resolveCalls[h] > 0
                \/ grantCalls[h] > 0) => decision[h] = "caused"
        /\ (decision[h] = "caused" /\ pc[h] = "done") => resolveCalls[h] = 1
        /\ (decision[h] = "not_caused") => pc[h] = "done" /\ result[h] = "ok"
        /\ pc[h] = "unlock" => counter = Some(fetched[h])
        /\ (Obtained(h) /\ pc[h] \notin {"write", "unlock"}) => Decided(h)

\* initialize(5), update(5): not caused; and update(6) on a counter of 5:
\* caused.
C4_Witness ==
    \E a, b \in Members :
        /\ initVal = Some(5)
        /\ prev[a] = Some(5) /\ fetched[a] = 5 /\ decision[a] = "not_caused"
        /\ prev[b] = Some(5) /\ fetched[b] = 6 /\ decision[b] = "caused"

\* The Err values handle_new_guild_member can return.
ErrorResults == {"err_platform", "err_role", "err_uninitialized"}

\* C5: a handler that reaches the counter update while the counter is None
\* ends with an error result, leaves the counter None and grants no role.
C5_UninitializedReturnsError ==
    \A h \in Members :
        decision[h] = "uninitialized" =>
            /\ result[h] \in ErrorResults
            /\ counter = None
            /\ grantCalls[h] = 0

\* A handler that found no invite with the configured code has returned
\* Ok(()), never held the lock, never read the counter and never resolved
\* or granted the role.
C6_NotApplicableState ==
    \A h \in Members :
        decision[h] = "not_applicable" =>
            /\ pc[h] = "done"
            /\ result[h] = "ok"
            /\ prev[h] = None
            /\ resolveCalls[h] = 0
            /\ grantCalls[h] = 0
            /\ h \notin roleHolders
            /\ \A i \in 1..Len(csOrder) : csOrder[i] # h

\* The step in which a handler's fetch succeeds and the list lacks the
\* configured code ends the handler as not applicable and changes neither
\* the counter nor the lock nor anyone's roles.
C6_NotApplicableStep ==
    \A h \in Members :
        (pc[h] = "fetch" /\ pc'[h] # "fetch" /\ ~invitePresent
            /\ result'[h] # "err_platform") =>
            /\ decision'[h] = "not_applicable"
            /\ pc'[h] = "done"
            /\ result'[h] = "ok"
            /\ counter' = counter
            /\ lockHolder' = lockHolder
            /\ roleHolders' = roleHolders

\* C6: when the fetched invite list has no entry with the configured code,
\* the handler returns success without acquiring the lock: the counter is
\* unchanged and no role is resolved or granted.
C6_NoMatchingInviteNoEffect ==
    []C6_NotApplicableState /\ [][C6_NotApplicableStep]_vars

\* A handler ended as not applicable while the counter was initialized.
C6_Witness ==
    \E h \in Members : decision[h] = "not_applicable" /\ IsSome(counter)

\* A handler that decided caused and has ended: it resolved the role once
\* and called add_role at most once; it returned Ok exactly when the member
\* got the role, and an error otherwise.
C13_FailureSurfacedState ==
    \A h \in Members :
        /\ grantCalls[h] <= 1
        /\ resolveCalls[h] <= 1
        /\ (decision[h] = "caused" /\ pc[h] = "done") =>
               /\ resolveCalls[h] = 1
               /\ result[h] \in {"ok", "err_platform", "err_role"}
               /\ result[h] = "ok" <=> h \in roleHolders
               /\ result[h] = "err_role" => grantCalls[h] = 0

\* The steps of role resolution and grant leave the stored count alone.
C13_NoRollbackStep ==
    \A h \in Members :
        (pc[h] \in {"resolve", "grant"} /\ pc'[h] # pc[h]) =>
            /\ counter' = counter
            /\ pc'[h] \in {"grant", "done"}

\* C13: when role resolution or the grant fails after a caused decision, the
\* handler returns that error, does not call add_role again and leaves the
\* newly stored count in the counter; a join notification leads to at most
\* one add_role call.
C13_JoinFailureSurfaced ==
    []C13_FailureSurfacedState /\ [][C13_NoRollbackStep]_vars

\* A handler stored its count, decided caused and ended with the error of a
\* missing role, and the counter still holds what it stored.
C13_Witness ==
    \E h \in Members :
        /\ decision[h] = "caused"
        /\ result[h] = "err_role"
        /\ counter = Some(fetched[h])
        /\ fetched[h] > Unwrap(prev[h])

\* Where a join notification stands: the role is held only by members whose
\* own handler decided caused and called add_role once; a handler that
\* decided otherwise has ended with Ok and without a grant; and the join
\* path has shown no form and sent no reply.
C14_JoinStates ==
    /\ \A m \in roleHolders :
           decision[m] = "caused" /\ grantCalls[m] = 1 /\ result[m] = "ok"
    /\ \A h \in Members :
           /\ decision[h] \in {"not_caused", "not_applicable"} =>
                  /\ pc[h] = "done"
                  /\ result[h] = "ok"
                  /\ grantCalls[h] = 0
                  /\ h \notin roleHolders
           /\ (decision[h] = "caused" /\ result[h] = "ok") =>
                  h \in roleHolders
           /\ (pc[h] = "done" /\ result[h] = "ok") =>
                  decision[h] \in {"caused", "not_caused", "not_applicable"}
    /\ modal = "none"
    /\ failNotices = 0
    /\ successNotices = 0
    /\ netCalls = 0

\* A handler decides once: a decision made is never changed.
C14_DecidesOnceStep ==
    \A h \in Members : decision[h] # "none" => decision'[h] = decision[h]

\* C14: a join notification leads to exactly one attribution decision; on
\* caused the role is granted to the member of that notification and to
\* nobody else, with no password form and no reply; otherwise nothing is
\* done.
C14_JoinStateMachine == []C14_JoinStates /\ [][C14_DecidesOnceStep]_vars

\* One member was attributed and granted the role while another one, whose
\* handler decided not caused, was left alone.
C14_Witness ==
    \E h, g \in Members :
        /\ decision[h] = "caused"
        /\ h \in roleHolders
        /\ decision[g] = "not_caused"
        /\ pc[g] = "done"
        /\ g \notin roleHolders

\* Handler a acquired the lock before handler b.
EnteredBefore(a, b) ==
    \E i, j \in 1..Len(csOrder) : i < j /\ csOrder[i] = a /\ csOrder[j] = b

\* Members a and b both joined through the tracked invite and both handlers
\* fetched the same count (so each fetched after both joins), which was
\* greater than the stored one when a, the first of the two, read it; both
\* have decided.
C16_Case(a, b) ==
    /\ a # b
    /\ via[a] /\ via[b]
    /\ Decided(a) /\ Decided(b)
    /\ fetched[a] = fetched[b]
    /\ EnteredBefore(a, b)
    /\ fetched[a] > Unwrap(prev[a])

\* C16: of two handlers that fetched the same count after both members
\* joined through the tracked invite, the one that enters the critical
\* section first decides caused and the other decides not caused.
C16_ExactlyOneCaused ==
    \A a, b \in Members :
        C16_Case(a, b) =>
            decision[a] = "caused" /\ decision[b] = "not_caused"

\* C17: once initialized, the stored counter never decreases.
C17_CounterNeverDecreases ==
    [][(IsSome(counter) /\ IsSome(counter')) =>
           Unwrap(counter') >= Unwrap(counter)]_vars

\* C20: the lock is left usable by every handler, one that found the counter
\* uninitialized included: no handler is stopped at lock() (line 109), so a
\* handler that ends without a result of its own function is one that
\* itself found the counter uninitialized.
C20_LaterHandlersReachDecision ==
    \A h \in Members :
        (pc[h] = "done" /\ result[h] = "panic") =>
            decision[h] = "uninitialized"

----------------------------------------------------------------------------
\* Fully serialized join handling: the gateway delivers a join only when the
\* startup snapshot is stored and every earlier handle_new_guild_member call
\* has returned, so each handler runs lines 99-126 alone.
JoinSerial(h, tracked) ==
    /\ IsSome(counter)
    /\ \A g \in Members : pc[g] \in {"idle", "done"}
    /\ Join(h, tracked)

NextSerial ==
    \/ Initialize
    \/ DeleteInvite
    \/ \E h \in Members, tracked \in BOOLEAN : JoinSerial(h, tracked)
    \/ \E h \in Members : FetchInvites(h)
    \/ \E h \in Members : LockAcquire(h)
    \/ \E h \in Members : ReadPrevious(h)
    \/ \E h \in Members : WriteNew(h)
    \/ \E h \in Members : Release(h)
    \/ \E h \in Members : ResolveRole(h)
    \/ \E h \in Members : AddRole(h)

SpecSerial == Init /\ [][NextSerial]_vars

InCriticalSection(h) == pc[h] \in {"read", "write", "unlock"}

\* C7: a handler holds the lock exactly while it is inside the critical
\* section, never while it fetches invites, resolves the role or grants it,
\* and at most one handler is inside the critical section.
C7_LockNotHeldAcrossCalls ==
    /\ \A h \in Members : lockHolder = h <=> InCriticalSection(h)
    /\ \A h \in Members :
           pc[h] \in {"fetch", "resolve", "grant"} => lockHolder # h
    /\ \A h, g \in Members :
           (InCriticalSection(h) /\ InCriticalSection(g)) => h = g

\* One handler is inside the critical section while another waits for the
\* lock and a third one talks to the platform.
C7_Witness ==
    \E h, g, f \in Members :
        /\ InCriticalSection(h)
        /\ pc[g] = "lock"
        /\ pc[f] \in {"fetch", "resolve", "grant"}

----------------------------------------------------------------------------
\* The /ophase command (ersti, lines 131-190).

\* Invocations of the command that the model follows.
MaxInvocations == 2

joinOnlyVars == << uses, invitePresent, ready, counter, lockHolder, poisoned,
                   pc, via, fetched, prev, result, decision, initVal, csOrder,
                   grantCalls, resolveCalls >>

\* PreconditionError with the configuration looked at before the member.
PreconditionErrorConfigFirst(inGuild, cached, roleFound) ==
    IF ~configured THEN "err_not_configured"
    ELSE IF ~inGuild THEN "err_dm"
    ELSE IF ~cached THEN "err_no_guild"
    ELSE IF ~roleFound THEN "err_role"
    ELSE "none"

\* Lines 134-147, none of which talks to the platform: author_member() of an
\* application context reads the interaction's member, ctx.guild() reads the
\* cache, get_role_id (39-45) searches the cached guild's roles.
PreconditionError(inGuild, cached, roleFound) ==
    IF ~inGuild THEN "err_dm"
    ELSE IF ~configured THEN "err_not_configured"
    ELSE IF ~cached THEN "err_no_guild"
    ELSE IF ~roleFound THEN "err_role"
    ELSE "none"

\* CmdInvoke with a lockout: after a failed attempt the command refuses.
CmdInvokeLockout(u, inGuild, cached, roleFound) ==
    /\ cpc \in {"idle", "done"}
    /\ invocations < MaxInvocations
    /\ cached => inGuild
    /\ roleFound => cached
    /\ invocations' = invocations + 1
    /\ cmdUser' = u
    /\ cmdInGuild' = inGuild
    /\ cmdCached' = cached
    /\ cmdRoleFound' = roleFound
    /\ modal' = "none"
    /\ submitted' = << >>
    /\ netCalls' = 0
    /\ cmdGrantCalls' = 0
    /\ cmdGranted' = FALSE
    /\ failNotices' = 0
    /\ successNotices' = 0
    /\ LET e == IF earlierFailures > 0 THEN "err_locked"
                ELSE PreconditionError(inGuild, cached, roleFound) IN
         IF e = "none"
           THEN cpc' = "channel" /\ cmdResult' = "none"
           ELSE cpc' = "done" /\ cmdResult' = e
    /\ UNCHANGED << cfgPassword, channelExists, configured, roleHolders,
                    earlierFailures, joinOnlyVars >>

\* A user invokes /ophase, in a guild or in a direct message (where the
\* cache has no guild for the interaction either); roleFound is what the
\* search of the guild's roles finds at that moment.
CmdInvoke(u, inGuild, cached, roleFound) ==
    /\ cpc \in {"idle", "done"}
    /\ invocations < MaxInvocations
    /\ cached => inGuild
    /\ roleFound => cached
    /\ invocations' = invocations + 1
    /\ cmdUser' = u
    /\ cmdInGuild' = inGuild
    /\ cmdCached' = cached
    /\ cmdRoleFound' = roleFound
    /\ modal' = "none"
    /\ submitted' = << >>
    /\ netCalls' = 0
    /\ cmdGrantCalls' = 0
    /\ cmdGranted' = FALSE
    /\ failNotices' = 0
    /\ successNotices' = 0
    /\ LET e == PreconditionError(inGuild, cached, roleFound) IN
         IF e = "none"
           THEN cpc' = "channel" /\ cmdResult' = "none"
           ELSE cpc' = "done" /\ cmdResult' = e
    /\ UNCHANGED << cfgPassword, channelExists, configured, roleHolders,
                    earlierFailures, joinOnlyVars >>

\* Line 148, get_channel_id (47-59): ctx.guild(), guild.channels(ctx).await?,
\* then the search for config.channel_name.
CmdGetChannel ==
    /\ cpc = "channel"
    /\ IF ~cmdCached
         THEN /\ cpc' = "done"
              /\ cmdResult' = "err_no_guild"
              /\ UNCHANGED netCalls
         ELSE /\ netCalls' = netCalls + 1
              /\ \E ok \in BOOLEAN :
                   IF ~ok
                     THEN cpc' = "done" /\ cmdResult' = "err_platform"
                   ELSE IF ~channelExists
                     THEN cpc' = "done" /\ cmdResult' = "err_channel"
                   ELSE cpc' = "modal" /\ UNCHANGED cmdResult
    /\ UNCHANGED << cfgPassword, channelExists, cmdUser, cmdInGuild,
                    cmdCached, cmdRoleFound, modal, submitted, cmdGrantCalls,
                    cmdGranted, failNotices, successNotices, invocations,
                    earlierFailures, configured, roleHolders, joinOnlyVars >>

\* FormAccepts without min_length.
FormAcceptsNoMinimum(s) == Len(s) <= MaxLength

\* Lines 198-199: the form accepts a text of 5 to 40 characters.
FormAccepts(s) == Len(s) >= MinLength /\ Len(s) <= MaxLength

\* CmdModal with a dismissed form handled like a wrong password.
CmdModalCancelAsWrong ==
    /\ cpc = "modal"
    /\ netCalls' = netCalls + 1
    /\ \/ /\ modal' = "error"
          /\ cpc' = "done"
          /\ cmdResult' = "err_platform"
          /\ UNCHANGED << submitted, earlierFailures >>
       \/ /\ modal' = "cancelled"
          /\ cpc' = "send_failure"
          /\ UNCHANGED << cmdResult, submitted, earlierFailures >>
       \/ \E s \in TypedPasswords :
            /\ FormAccepts(s)
            /\ modal' = "submitted"
            /\ submitted' = s
            /\ cpc' = "compare"
            /\ UNCHANGED << cmdResult, earlierFailures >>
    /\ UNCHANGED << cfgPassword, channelExists, cmdUser, cmdInGuild,
                    cmdCached, cmdRoleFound, cmdGrantCalls, cmdGranted,
                    failNotices, successNotices, invocations, configured,
                    roleHolders, joinOnlyVars >>

\* Line 150: PasswordResponse::execute(ctx).await? shows the modal and waits:
\* the request fails, the user dismisses the form (None), or the user submits
\* a text the form accepts.
CmdModal ==
    /\ cpc = "modal"
    /\ netCalls' = netCalls + 1
    /\ \/ /\ modal' = "error"
          /\ cpc' = "done"
          /\ cmdResult' = "err_platform"
          /\ UNCHANGED << submitted, earlierFailures >>
       \/ /\ modal' = "cancelled"
          /\ cpc' = "done"
          /\ cmdResult' = "ok"
          /\ earlierFailures' = earlierFailures + 1
          /\ UNCHANGED submitted
       \/ \E s \in TypedPasswords :
            /\ FormAccepts(s)
            /\ modal' = "submitted"
            /\ submitted' = s
            /\ cpc' = "compare"
            /\ UNCHANGED << cmdResult, earlierFailures >>
    /\ UNCHANGED << cfgPassword, channelExists, cmdUser, cmdInGuild,
                    cmdCached, cmdRoleFound, cmdGrantCalls, cmdGranted,
                    failNotices, successNotices, invocations, configured,
                    roleHolders, joinOnlyVars >>

\* PasswordMatches without the lower-casing.
PasswordMatchesExact(typed, expected) == typed = expected

\* Line 155: response.password.to_lowercase() != config.password.to_lowercase()
PasswordMatches(typed, expected) == to_lowercase(typed) = to_lowercase(expected)

CmdCompare ==
    /\ cpc = "compare"
    /\ cpc' = IF PasswordMatches(submitted, cfgPassword)
                THEN "grant" ELSE "send_failure"
    /\ UNCHANGED << cfgPassword, channelExists, cmdUser, cmdInGuild,
                    cmdCached, cmdRoleFound, modal, submitted, cmdResult,
                    netCalls, cmdGrantCalls, cmdGranted, failNotices,
                    successNotices, invocations, earlierFailures, configured,
                    roleHolders, joinOnlyVars >>

\* Lines 163-170: the wrong-password reply, then Ok(()).
CmdSendFailure ==
    /\ cpc = "send_failure"
    /\ netCalls' = netCalls + 1
    /\ cpc' = "done"
    /\ earlierFailures' = earlierFailures + 1
    /\ \E ok \in BOOLEAN :
         IF ok
           THEN failNotices' = failNotices + 1 /\ cmdResult' = "ok"
           ELSE UNCHANGED failNotices /\ cmdResult' = "err_platform"
    /\ UNCHANGED << cfgPassword, channelExists, cmdUser, cmdInGuild,
                    cmdCached, cmdRoleFound, modal, submitted, cmdGrantCalls,
                    cmdGranted, successNotices, invocations, configured,
                    roleHolders, joinOnlyVars >>

\* CmdGrant with the result of add_role dropped (no ? after the await).
CmdGrantIgnoresFailure ==
    /\ cpc = "grant"
    /\ netCalls' = netCalls + 1
    /\ cmdGrantCalls' = cmdGrantCalls + 1
    /\ cpc' = "send_success"
    /\ \E ok \in BOOLEAN :
         IF ok
           THEN /\ roleHolders' = roleHolders \cup {cmdUser}
                /\ cmdGranted' = TRUE
           ELSE UNCHANGED << roleHolders, cmdGranted >>
    /\ UNCHANGED << cfgPassword, channelExists, cmdUser, cmdInGuild,
                    cmdCached, cmdRoleFound, modal, submitted, cmdResult,
                    failNotices, successNotices, invocations, earlierFailures,
                    configured, joinOnlyVars >>

\* Line 175: member.add_role(ctx.http(), role_id).await?
CmdGrant ==
    /\ cpc = "grant"
    /\ netCalls' = netCalls + 1
    /\ cmdGrantCalls' = cmdGrantCalls + 1
    /\ \E ok \in BOOLEAN :
         IF ok
           THEN /\ roleHolders' = roleHolders \cup {cmdUser}
                /\ cmdGranted' = TRUE
                /\ cpc' = "send_success"
                /\ UNCHANGED cmdResult
           ELSE /\ cpc' = "done"
                /\ cmdResult' = "err_platform"
                /\ UNCHANGED << roleHolders, cmdGranted >>
    /\ UNCHANGED << cfgPassword, channelExists, cmdUser, cmdInGuild,
                    cmdCached, cmdRoleFound, modal, submitted, failNotices,
                    successNotices, invocations, earlierFailures, configured,
                    joinOnlyVars >>

\* CmdSendSuccess that counts the welcomed member as one more use of the
\* invite in the shared counter.
CmdSendSuccessCountsUse ==
    /\ cpc = "send_success"
    /\ netCalls' = netCalls + 1
    /\ cpc' = "done"
    /\ \E ok \in BOOLEAN :
         IF ok
           THEN successNotices' = successNotices + 1 /\ cmdResult' = "ok"
           ELSE UNCHANGED successNotices /\ cmdResult' = "err_platform"
    /\ counter' = IF IsSome(counter) THEN Some(Unwrap(counter) + 1) ELSE None
    /\ UNCHANGED << cfgPassword, channelExists, cmdUser, cmdInGuild,
                    cmdCached, cmdRoleFound, modal, submitted, cmdGrantCalls,
                    cmdGranted, failNotices, invocations, earlierFailures,
                    configured, roleHolders >>
    /\ UNCHANGED << uses, invitePresent, ready, lockHolder, poisoned, pc, via,
                    fetched, prev, result, decision, initVal, csOrder,
                    grantCalls, resolveCalls >>

\* Lines 179-189: the welcome reply, then Ok(()).
CmdSendSuccess ==
    /\ cpc = "send_success"
    /\ netCalls' = netCalls + 1
    /\ cpc' = "done"
    /\ \E ok \in BOOLEAN :
         IF ok
           THEN successNotices' = successNotices + 1 /\ cmdResult' = "ok"
           ELSE UNCHANGED successNotices /\ cmdResult' = "err_platform"
    /\ UNCHANGED << cfgPassword, channelExists, cmdUser, cmdInGuild,
                    cmdCached, cmdRoleFound, modal, submitted, cmdGrantCalls,
                    cmdGranted, failNotices, invocations, earlierFailures,
                    configured, roleHolders, joinOnlyVars >>

NextCmd ==
    \/ \E u \in Members, inGuild, cached, roleFound \in BOOLEAN :
         CmdInvoke(u, inGuild, cached, roleFound)
    \/ CmdGetChannel
    \/ CmdModal
    \/ CmdCompare
    \/ CmdSendFailure
    \/ CmdGrant
    \/ CmdSendSuccess

SpecCmd == InitCmd /\ [][NextCmd]_vars

----------------------------------------------------------------------------
\* Both paths in one process: /ophase invocations run as tasks of their own
\* next to the join handlers, in any interleaving.

\* Join notifications handled next to the command.
ConcurrentJoins == 2

JoinBeside(h, tracked) ==
    /\ h <= ConcurrentJoins
    /\ Join(h, tracked)

\* /ophase invocations made next to them.
CommandsBeside == 1

InvokeBeside(u, inGuild, cached, roleFound) ==
    /\ invocations < CommandsBeside
    /\ CmdInvoke(u, inGuild, cached, roleFound)

NextAll ==
    \/ Initialize
    \/ DeleteInvite
    \/ \E h \in Members, tracked \in BOOLEAN : JoinBeside(h, tracked)
    \/ \E h \in Members : FetchInvites(h)
    \/ \E h \in Members : LockAcquire(h)
    \/ \E h \in Members : ReadPrevious(h)
    \/ \E h \in Members : WriteNew(h)
    \/ \E h \in Members : Release(h)
    \/ \E h \in Members : ResolveRole(h)
    \/ \E h \in Members : AddRole(h)
    \/ \E u \in Members, inGuild, cached, roleFound \in BOOLEAN :
         InvokeBeside(u, inGuild, cached, roleFound)
    \/ CmdGetChannel
    \/ CmdModal
    \/ CmdCompare
    \/ CmdSendFailure
    \/ CmdGrant
    \/ CmdSendSuccess

SpecAll == Init /\ [][NextAll]_vars

\* C19: no step of the command path takes or releases the counter lock or
\* changes the counter, and none changes what a join handler fetched, read
\* or decided; every change of these is a step of a join handler (or of the
\* startup snapshot), exactly as in a run without the command.
C19_CommandLeavesCounterAlone ==
    [][/\ NextCmd => UNCHANGED joinOnlyVars
       /\ ~(UNCHANGED joinOnlyVars) => (NextJoin /\ UNCHANGED cmdVars)]_vars

C19_Witness ==
    /\ successNotices = 1
    /\ cmdUser \in roleHolders
    /\ lockHolder # 0
    /\ IsSome(prev[lockHolder])
    /\ \E h \in Members : decision[h] = "caused" /\ h # lockHolder

----------------------------------------------------------------------------
\* Properties of the command path, checked under SpecCmd.

\* The errors of the four preconditions.
PreconditionErrors ==
    {"err_dm", "err_no_guild", "err_not_configured", "err_role", "err_channel"}

\* The request for the guild's channels failed (line 54).
ChannelFetchFailed ==
    cmdResult = "err_platform" /\ modal = "none" /\ cmdGrantCalls = 0

\* C8: the preconditions are checked in the order guild context, feature
\* configured, role exists, channel exists, and the first one that fails
\* gives the error; after a failed precondition the form was not shown, no
\* role was granted and no reply sent; outside a guild the command fails
\* before any platform request.
C8_PreconditionsInOrder ==
    cpc = "done" =>
        /\ ~cmdInGuild => cmdResult = "err_dm" /\ netCalls = 0
        /\ (cmdInGuild /\ ~configured) => cmdResult = "err_not_configured"
        /\ (cmdInGuild /\ configured /\ cmdCached /\ ~cmdRoleFound) =>
               cmdResult = "err_role"
        /\ (cmdInGuild /\ configured /\ cmdCached /\ cmdRoleFound
                /\ ~channelExists) =>
               cmdResult = "err_channel" \/ ChannelFetchFailed
        /\ cmdResult = "err_dm" => ~cmdInGuild
        /\ cmdResult = "err_not_configured" => cmdInGuild /\ ~configured
        /\ cmdResult = "err_no_guild" =>
               cmdInGuild /\ configured /\ ~cmdCached
        /\ cmdResult = "err_role" =>
               cmdInGuild /\ configured /\ ~cmdRoleFound
        /\ cmdResult = "err_channel" =>
               cmdInGuild /\ configured /\ cmdRoleFound /\ ~channelExists
        /\ cmdResult \in PreconditionErrors =>
               /\ modal = "none"
               /\ cmdGrantCalls = 0
               /\ ~cmdGranted
               /\ failNotices = 0
               /\ successNotices = 0
               /\ netCalls <= 1

\* Invoked in a direct message while the feature is not configured either:
\* the guild-context error wins.
C8_Witness ==
    /\ cpc = "done"
    /\ ~cmdInGuild
    /\ ~configured
    /\ cmdResult = "err_dm"
    /\ netCalls = 0

\* Every precondition of the invocation held.
PreconditionsPassed ==
    cmdInGuild /\ configured /\ cmdCached /\ cmdRoleFound /\ channelExists

\* The submitted password equals the configured one after lower-casing both.
LowerCasedEqual == to_lowercase(submitted) = to_lowercase(cfgPassword)

\* C9: the command grants the role to the invoking member exactly when all
\* preconditions passed, the form was submitted and the submitted password
\* equals the configured one after lower-casing both sides ("QuAcK123"
\* matches "quack123"); on a mismatch the failure notice is sent and no
\* grant is attempted.
C9_GrantIffPasswordMatches ==
    /\ cmdGrantCalls <= 1
    /\ cmdGrantCalls = 1 =>
           PreconditionsPassed /\ modal = "submitted" /\ LowerCasedEqual
    /\ cmdGranted => cmdGrantCalls = 1 /\ cmdUser \in roleHolders
    /\ (cpc = "done" /\ modal = "submitted" /\ LowerCasedEqual) =>
           /\ PreconditionsPassed
           /\ cmdGrantCalls = 1
           /\ cmdGranted \/ cmdResult = "err_platform"
           /\ failNotices = 0
    /\ (cpc = "done" /\ modal = "submitted" /\ ~LowerCasedEqual) =>
           /\ cmdGrantCalls = 0
           /\ ~cmdGranted
           /\ successNotices = 0
           /\ failNotices = 1 \/ cmdResult = "err_platform"
    /\ (cpc = "done" /\ modal = "submitted"
            /\ submitted = << "Q", "u", "A", "c", "K", "1", "2", "3" >>
            /\ cfgPassword = << "q", "u", "a", "c", "k", "1", "2", "3" >>) =>
           cmdGrantCalls = 1
    /\ invocations = 1 =>
           roleHolders = IF cmdGranted THEN {cmdUser} ELSE {}

\* "QuAcK123" was submitted against the configured "quack123" and the role
\* was granted.
C9_Witness ==
    /\ cpc = "done"
    /\ submitted = << "Q", "u", "A", "c", "K", "1", "2", "3" >>
    /\ cfgPassword = << "q", "u", "a", "c", "k", "1", "2", "3" >>
    /\ cmdGranted
    /\ cmdUser \in roleHolders

\* C10: after the user dismissed the form the command has ended with Ok(()),
\* sent no reply, attempted no grant and made no further platform request.
C10_CancelEndsSilently ==
    modal = "cancelled" =>
        /\ cpc = "done"
        /\ cmdResult = "ok"
        /\ failNotices = 0
        /\ successNotices = 0
        /\ cmdGrantCalls = 0
        /\ ~cmdGranted
        /\ netCalls = 2

C10_Witness == modal = "cancelled" /\ cpc = "done" /\ PreconditionsPassed

\* C11: the welcome reply is sent only after add_role returned Ok; when
\* add_role fails the command ends with that error, sends no welcome reply
\* and does not call add_role again.
C11_GrantBeforeSuccessNotice ==
    /\ cmdGrantCalls <= 1
    /\ successNotices <= 1
    /\ cpc = "send_success" => cmdGranted /\ cmdGrantCalls = 1
    /\ successNotices = 1 =>
           cmdGranted /\ cmdGrantCalls = 1 /\ cmdUser \in roleHolders
    /\ (cmdGrantCalls = 1 /\ ~cmdGranted) =>
           /\ cpc = "done"
           /\ cmdResult = "err_platform"
           /\ successNotices = 0
           /\ netCalls = 3

\* add_role failed and the command has ended with the error.
C11_Witness ==
    /\ cmdGrantCalls = 1
    /\ ~cmdGranted
    /\ cpc = "done"
    /\ cmdResult = "err_platform"

\* C12: there is no retry limit and no lockout: whatever the number of
\* earlier invocations that ended in a wrong password or a dismissed form,
\* the command can be invoked again at once, an invocation whose
\* preconditions hold gets to the form, and one whose submitted password
\* matches calls add_role; the outcome is a matter of the invocation's own
\* inputs.
C12_NoRetryLimit ==
    /\ (cpc \in {"idle", "done"} /\ invocations < MaxInvocations) =>
           \A u \in Members : ENABLED CmdInvoke(u, TRUE, TRUE, TRUE)
    /\ cpc = "done" =>
           /\ (cmdInGuild /\ configured /\ cmdCached /\ cmdRoleFound) =>
                  netCalls >= 1
                      /\ cmdResult \in {"ok", "err_platform", "err_channel"}
           /\ PreconditionsPassed => modal # "none" \/ ChannelFetchFailed
           /\ (modal = "submitted" /\ LowerCasedEqual) =>
                  /\ cmdGrantCalls = 1
                  /\ cmdGranted \/ cmdResult = "err_platform"
           /\ cmdResult \notin {"none", "err_locked"}

\* After an invocation that ended in a wrong password or a dismissed form,
\* a further invocation with the matching password has granted the role.
C12_Witness ==
    /\ invocations >= 2
    /\ earlierFailures >= 1
    /\ cpc = "done"
    /\ cmdGranted
    /\ cmdResult = "ok"

\* C15: a text shorter than 5 or longer than 40 characters never gets past
\* the form: whatever is compared with the configured password, and so
\* whatever leads to a grant or to the wrong-password reply, has 5 to 40
\* characters.
C15_LengthCheckedBeforeComparison ==
    (modal = "submitted"
        \/ cpc \in {"compare", "send_failure", "grant", "send_success"}
        \/ cmdGrantCalls > 0 \/ failNotices > 0 \/ successNotices > 0) =>
        /\ Len(submitted) >= 5
        /\ Len(submitted) <= 40

\* Texts of 4 and of 41 characters can be typed; one of exactly 40
\* characters was submitted and compared.
C15_Witness ==
    /\ \E s \in TypedPasswords : Len(s) = 4
    /\ \E s \in TypedPasswords : Len(s) = 41
    /\ modal = "submitted"
    /\ Len(submitted) = 40
    /\ cpc = "done"
    /\ failNotices = 1

TypeOK ==
    /\ uses \in Nat
    /\ lockHolder \in 0..NumMembers
    /\ counter = None \/ IsSome(counter)
====
